---- MODULE Spec2Model ----
(***************************************************************************)
(* The two document-classification services of the repository:             *)
(*   classify_document_server/app.py            classify_with_hf_api       *)
(*   supabase/functions/classifyDocument/index.py  classify_document       *)
(* Each extracts text from an uploaded image, cleans it of the model's     *)
(* sentinel tokens, counts the ACADEMIC_KEYWORDS that occur in it and      *)
(* returns a verdict.                                                      *)
(*                                                                         *)
(* A Python str is modelled as a sequence of one-character strings, so     *)
(* that lower(), replace(), strip(), `in`, slicing and join are computed   *)
(* character by character as Python computes them.                         *)
(***************************************************************************)
EXTENDS Naturals, Sequences, FiniteSets, TLC

-----------------------------------------------------------------------------
(* Bounds of the model *)

\* an image's generated text is a concatenation of at most MaxPieces fragments
MaxPieces == 2

\* length of the run of "x" characters used to build texts near the 500 limit
FillerLen == 498

\* number of requests that call load_model concurrently
NumCallers == 2

\* number of load_model calls the concurrent requests make in all
MaxCalls == 3

-----------------------------------------------------------------------------
(* Python str operations *)

UpperChars ==
    <<"A","B","C","D","E","F","G","H","I","J","K","L","M",
      "N","O","P","Q","R","S","T","U","V","W","X","Y","Z">>

LowerChars ==
    <<"a","b","c","d","e","f","g","h","i","j","k","l","m",
      "n","o","p","q","r","s","t","u","v","w","x","y","z">>

ToLowerChar(c) ==
    IF \E i \in 1..Len(UpperChars) : UpperChars[i] = c
    THEN LowerChars[CHOOSE i \in 1..Len(UpperChars) : UpperChars[i] = c]
    ELSE c

\* s.lower()
lower(s) == [i \in 1..Len(s) |-> ToLowerChar(s[i])]

WhitespaceChars == {" ", "\t", "\n", "\r"}

\* s.strip()
strip(s) ==
    IF \A i \in 1..Len(s) : s[i] \in WhitespaceChars THEN <<>>
    ELSE SubSeq(s,
                CHOOSE i \in 1..Len(s) :
                    s[i] \notin WhitespaceChars
                    /\ \A j \in 1..(i - 1) : s[j] \in WhitespaceChars,
                CHOOSE i \in 1..Len(s) :
                    s[i] \notin WhitespaceChars
                    /\ \A j \in (i + 1)..Len(s) : s[j] \in WhitespaceChars)

\* `old` occurs in t at position p
MatchAt(t, old, p) ==
    /\ p >= 1
    /\ p + Len(old) - 1 <= Len(t)
    /\ \A j \in 1..Len(old) : t[p + j - 1] = old[j]

\* sub in t
Contains(sub, t) == \E p \in 1..(Len(t) - Len(sub) + 1) : MatchAt(t, sub, p)

\* t.replace(old, "") from position i on: the leftmost occurrence is dropped,
\* and the scan resumes after it (occurrences never overlap a dropped one)
RECURSIVE replace_from(_, _, _)
replace_from(t, old, i) ==
    LET hits == {p \in i..(Len(t) - Len(old) + 1) : MatchAt(t, old, p)}
    IN  IF hits = {} \/ old = <<>> THEN SubSeq(t, i, Len(t))
        ELSE LET p == CHOOSE q \in hits : \A r \in hits : q <= r
             IN  SubSeq(t, i, p - 1) \o replace_from(t, old, p + Len(old))

\* t.replace(old, "")
replace(t, old) == replace_from(t, old, 1)

\* s[:n]
Take(s, n) == SubSeq(s, 1, IF Len(s) < n THEN Len(s) ELSE n)

\* sep.join(items)
RECURSIVE join(_, _)
join(sep, items) ==
    IF items = <<>> THEN <<>>
    ELSE IF Len(items) = 1 THEN items[1]
    ELSE items[1] \o sep \o join(sep, Tail(items))

DigitChars == <<"0","1","2","3","4","5","6","7","8","9">>

\* str(n) of a non-negative int
RECURSIVE str_int(_)
str_int(n) ==
    IF n < 10 THEN <<DigitChars[n + 1]>>
    ELSE str_int(n \div 10) \o <<DigitChars[(n % 10) + 1]>>

\* str(d) of a dict with the single entry key: value (both str without quotes)
str_dict(key, value) ==
    <<"{","'">> \o key \o <<"'",":"," ","'">> \o value \o <<"'","}">>

-----------------------------------------------------------------------------
(* Program constants *)

\* ACADEMIC_KEYWORDS with "pad" in the place of "roll"
KEYWORD_LIST_WithPad ==
    << <<"g","r","a","d","e">>, <<"m","a","r","k","s">>, <<"c","e","r","t","i","f","i","c","a","t","e">>, <<"u","n","i","v","e","r","s","i","t","y">>, <<"c","o","l","l","e","g","e">>,
       <<"b","o","a","r","d">>, <<"p","e","r","c","e","n","t","a","g","e">>, <<"s","u","b","j","e","c","t">>, <<"c","r","e","d","i","t","s">>, <<"s","g","p","a">>,
       <<"c","g","p","a">>, <<"r","e","g","i","s","t","e","r">>, <<"u","s","n">>, <<"s","t","u","d","e","n","t">>, <<"i","d"," ","c","a","r","d">>, <<"e","x","a","m">>,
       <<"s","e","m","e","s","t","e","r">>, <<"m","a","r","k","s","h","e","e","t">>, <<"d","e","g","r","e","e">>, <<"d","i","p","l","o","m","a">>, <<"t","r","a","n","s","c","r","i","p","t">>,
       <<"a","c","a","d","e","m","i","c">>, <<"i","n","s","t","i","t","u","t","e">>, <<"e","d","u","c","a","t","i","o","n">>, <<"r","e","s","u","l","t">>, <<"s","c","o","r","e">>,
       <<"p","a","s","s">>, <<"f","a","i","l">>, <<"d","i","v","i","s","i","o","n">>, <<"c","l","a","s","s">>, <<"p","a","d">>, <<"a","d","m","i","s","s","i","o","n">> >>

\* ACADEMIC_KEYWORDS as written in both source files
KEYWORD_LIST ==
    << <<"g","r","a","d","e">>, <<"m","a","r","k","s">>, <<"c","e","r","t","i","f","i","c","a","t","e">>, <<"u","n","i","v","e","r","s","i","t","y">>, <<"c","o","l","l","e","g","e">>,
       <<"b","o","a","r","d">>, <<"p","e","r","c","e","n","t","a","g","e">>, <<"s","u","b","j","e","c","t">>, <<"c","r","e","d","i","t","s">>, <<"s","g","p","a">>,
       <<"c","g","p","a">>, <<"r","e","g","i","s","t","e","r">>, <<"u","s","n">>, <<"s","t","u","d","e","n","t">>, <<"i","d"," ","c","a","r","d">>, <<"e","x","a","m">>,
       <<"s","e","m","e","s","t","e","r">>, <<"m","a","r","k","s","h","e","e","t">>, <<"d","e","g","r","e","e">>, <<"d","i","p","l","o","m","a">>, <<"t","r","a","n","s","c","r","i","p","t">>,
       <<"a","c","a","d","e","m","i","c">>, <<"i","n","s","t","i","t","u","t","e">>, <<"e","d","u","c","a","t","i","o","n">>, <<"r","e","s","u","l","t">>, <<"s","c","o","r","e">>,
       <<"p","a","s","s">>, <<"f","a","i","l">>, <<"d","i","v","i","s","i","o","n">>, <<"c","l","a","s","s">>, <<"r","o","l","l">>, <<"a","d","m","i","s","s","i","o","n">> >>

\* sentinel literals
S_CORD == <<"<","s","_","c","o","r","d","-","v","2",">">>
END_S == <<"<","/","s",">">>
PAD == <<"<","p","a","d",">">>

\* processor.tokenizer.eos_token and pad_token of naver-clova-ix/donut-base
eos_token == <<"<","/","s",">">>
pad_token == <<"<","p","a","d",">">>

\* match_count >= 2
ACADEMIC_THRESHOLD == 2
\* matched_keywords[:5]
REASON_KEYWORDS == 5
\* extracted_text[:500]
TEXT_LIMIT == 500
\* len(extracted_text.strip()) < 5
MIN_TEXT_LEN == 5
\* len(extracted_text) > 10
CLIENT_MIN_LEN == 10
\* response.text[:500] and response.text[:200]
ERROR_TEXT_LIMIT == 500
API_ERROR_TEXT_LIMIT == 200

HF_MODEL_NAME == <<"m","i","c","r","o","s","o","f","t","/","t","r","o","c","r","-","b","a","s","e","-","p","r","i",
                   "n","t","e","d">>

REJECTION_REASON ==
    <<"O","n","l","y"," ","a","c","a","d","e","m","i","c"," ","d","o","c","u","m","e","n","t","s"," ",
      "(","m","a","r","k","s"," ","c","a","r","d","s",","," ","c","e","r","t","i","f","i","c","a",
      "t","e","s",","," ","I","D"," ","c","a","r","d","s",")"," ","a","r","e"," ","a","l","l","o",
      "w","e","d","."," ","T","h","i","s"," ","i","m","a","g","e"," ","d","o","e","s"," ","n","o",
      "t"," ","a","p","p","e","a","r"," ","t","o"," ","b","e"," ","a","n"," ","a","c","a","d","e",
      "m","i","c"," ","d","o","c","u","m","e","n","t",".">>

\* the dict every failure path returns
FailureVerdict(reason, error) ==
    [is_academic |-> FALSE, score |-> 0, text |-> <<>>, reason |-> reason, error |-> error]

-----------------------------------------------------------------------------
(* app.py: classify_with_hf_api, lines 236-283 *)

\* line 238 without the removal of "<pad>"
CleanHF_NoPad(text) == strip(replace(replace(text, S_CORD), END_S))

\* line 238, the chained removals applied to the lower-cased text
CleanHF(text) == strip(replace(replace(replace(text, S_CORD), END_S), PAD))

\* lines 242-251
NoTextReason(client, token) ==
    LET error_details ==
            (IF client = "None" THEN << <<"I","n","f","e","r","e","n","c","e","C","l","i","e","n","t"," ","n","o","t"," ","a","v","a","i",
                                          "l","a","b","l","e">> >> ELSE <<>>)
            \o (IF token = "None" THEN << <<"N","o"," ","A","P","I"," ","t","o","k","e","n"," ","s","e","t">> >> ELSE <<>>)
    IN  <<"F","a","i","l","e","d"," ","t","o"," ","e","x","t","r","a","c","t"," ","t","e","x","t"," ","f",
          "r","o","m"," ","i","m","a","g","e",".">>
        \o (IF error_details # <<>>
            THEN <<" ","I","s","s","u","e","s",":"," ">> \o join(<<","," ">>, error_details) \o <<".">>
            ELSE <<>>)
        \o <<" ","T","h","e"," ","m","o","d","e","l"," ","m","a","y"," ","n","o","t"," ","b","e"," ","a","v",
             "a","i","l","a","b","l","e"," ","v","i","a"," ","I","n","f","e","r","e","n","c","e",
             " ","A","P","I",","," ","o","r"," ","t","h","e"," ","i","m","a","g","e"," ","f","o",
             "r","m","a","t"," ","i","s"," ","n","o","t"," ","s","u","p","p","o","r","t","e","d",
             "."," ","P","l","e","a","s","e"," ","c","h","e","c","k"," ","R","a","i","l","w","a",
             "y"," ","l","o","g","s"," ","f","o","r"," ","m","o","r","e"," ","d","e","t","a","i",
             "l","s",".">>

\* line 270 with > for >=
IsAcademicHF_Strict(match_count) == match_count > ACADEMIC_THRESHOLD

\* line 270
IsAcademicHF(match_count) == match_count >= ACADEMIC_THRESHOLD

\* lines 262-268 with matched_keywords.insert(0, keyword) for append
MatchKeywordsHF_Prepend(text, keywords) ==
    LET hits == SelectSeq(keywords, LAMBDA keyword : Contains(lower(keyword), text))
    IN  [i \in 1..Len(hits) |-> hits[Len(hits) + 1 - i]]

\* lines 262-268 matching whole words only
MatchKeywordsHF_Words(text, keywords) ==
    SelectSeq(keywords, LAMBDA keyword :
        \E p \in 1..(Len(text) - Len(keyword) + 1) :
            /\ MatchAt(text, keyword, p)
            /\ (p = 1 \/ text[p - 1] = " ")
            /\ (p + Len(keyword) - 1 = Len(text) \/ text[p + Len(keyword)] = " "))

\* lines 262-268: the keywords, in list order, that occur in the text
MatchKeywordsHF(text, keywords) ==
    SelectSeq(keywords, LAMBDA keyword : Contains(lower(keyword), text))

\* line 273 without the [:5]
ReasonKeywordsHF_All(matched_keywords) == matched_keywords

\* line 273
ReasonKeywordsHF(matched_keywords) == Take(matched_keywords, REASON_KEYWORDS)

\* line 280 with one character too many
TextFieldHF_OffByOne(text) == Take(text, TEXT_LIMIT + 1)

\* line 280
TextFieldHF(text) == Take(text, TEXT_LIMIT)

\* lines 261-283 with the keyword loop run on extracted_text[:500]
ScoreHF_TruncatedFirst(text, keywords) ==
    LET matched_keywords == MatchKeywordsHF(TextFieldHF(text), keywords)
        match_count == Len(matched_keywords)
        is_academic == IsAcademicHF(match_count)
    IN  [is_academic |-> is_academic,
         score |-> match_count,
         text |-> TextFieldHF(text),
         reason |-> IF is_academic
                    THEN <<"D","o","c","u","m","e","n","t"," ","c","l","a","s","s","i","f","i","e","d"," ","a","s"," ","a",
                           "c","a","d","e","m","i","c"," ","(","m","a","t","c","h","e","d"," ">>
                         \o str_int(match_count) \o <<" ","k","e","y","w","o","r","d","s",":"," ">>
                         \o join(<<","," ">>, ReasonKeywordsHF(matched_keywords)) \o <<")">>
                    ELSE REJECTION_REASON,
         matched_keywords |-> matched_keywords]

\* lines 261-283
ScoreHF(text, keywords) ==
    LET matched_keywords == MatchKeywordsHF(text, keywords)
        match_count == Len(matched_keywords)
        is_academic == IsAcademicHF(match_count)
    IN  [is_academic |-> is_academic,
         score |-> match_count,
         text |-> TextFieldHF(text),
         reason |-> IF is_academic
                    THEN <<"D","o","c","u","m","e","n","t"," ","c","l","a","s","s","i","f","i","e","d"," ","a","s"," ","a",
                           "c","a","d","e","m","i","c"," ","(","m","a","t","c","h","e","d"," ">>
                         \o str_int(match_count) \o <<" ","k","e","y","w","o","r","d","s",":"," ">>
                         \o join(<<","," ">>, ReasonKeywordsHF(matched_keywords)) \o <<")">>
                    ELSE REJECTION_REASON,
         matched_keywords |-> matched_keywords]

\* line 241 with `extracted_text and` for `not extracted_text or`
NoTextHF_NonEmptyOnly(text) == text # <<>> /\ Len(strip(text)) < MIN_TEXT_LEN

\* line 241: not extracted_text or len(extracted_text.strip()) < 5
NoTextHF(text) == text = <<>> \/ Len(strip(text)) < MIN_TEXT_LEN

-----------------------------------------------------------------------------
(* index.py: classify_document, lines 119-149 *)

\* lines 120-123: the removals run on the decoded sequence, lower() comes last
CleanDonut(sequence) ==
    lower(strip(replace(replace(replace(replace(sequence, eos_token), pad_token),
                                S_CORD), END_S)))

\* line 135
IsAcademicDonut(match_count) == match_count >= ACADEMIC_THRESHOLD

\* lines 126-132
MatchKeywordsDonut(text, keywords) ==
    SelectSeq(keywords, LAMBDA keyword : Contains(lower(keyword), text))

\* line 139
ReasonKeywordsDonut(matched_keywords) == Take(matched_keywords, REASON_KEYWORDS)

\* line 146
TextFieldDonut(text) == Take(text, TEXT_LIMIT)

\* lines 125-149
ScoreDonut(text, keywords) ==
    LET matched_keywords == MatchKeywordsDonut(text, keywords)
        match_count == Len(matched_keywords)
        is_academic == IsAcademicDonut(match_count)
    IN  [is_academic |-> is_academic,
         score |-> match_count,
         text |-> TextFieldDonut(text),
         reason |-> IF is_academic
                    THEN <<"D","o","c","u","m","e","n","t"," ","c","l","a","s","s","i","f","i","e","d"," ","a","s"," ","a",
                           "c","a","d","e","m","i","c"," ","(","m","a","t","c","h","e","d"," ">>
                         \o str_int(match_count) \o <<" ","k","e","y","w","o","r","d","s",":"," ">>
                         \o join(<<","," ">>, ReasonKeywordsDonut(matched_keywords)) \o <<")">>
                    ELSE REJECTION_REASON,
         matched_keywords |-> matched_keywords]

-----------------------------------------------------------------------------
(* The environment: what the vision model generates and how a call can fail *)

SENTENCE == <<"t","h","i","s"," ","i","s"," ","a"," ","u","n","i","v","e","r","s","i","t","y"," ","m","a","r",
              "k","s","h","e","e","t"," ","s","h","o","w","i","n","g"," ","g","r","a","d","e"," ",
              "a","n","d"," ","p","e","r","c","e","n","t","a","g","e">>

Filler == [i \in 1..FillerLen |-> "x"]

\* fragments of generated text; an image's text is a concatenation of them
Pieces ==
    { SENTENCE,
      <<"<","s","_","c","o","r","d","-","v","2",">","S","T","U","D","E","N","T"," ","I","D"," ","C","A",
        "R","D","<","/","s",">">>,
      <<"e","x","a","m"," ","r","e","s","u","l","t"," ","c","e","r","t","i","f","i","c","a","t","e">>,
      <<"e","x","a","m">>,
      <<"<","p","a","d",">">>,
      <<"<","<","p","a","d",">","/","s",">">>,
      <<"<","/","S",">">>,
      <<" ">> }

\* the concatenations of at most n fragments
RECURSIVE TextsOf(_)
TextsOf(n) ==
    IF n = 0 THEN {<<>>}
    ELSE TextsOf(n - 1) \cup {t \o piece : t \in TextsOf(n - 1), piece \in Pieces}

\* the texts the vision model can generate for an image: at most MaxPieces
\* fragments, or the long run followed by at most one fragment
Texts == TextsOf(MaxPieces) \cup {Filler \o t : t \in TextsOf(1)}

\* results of _inference_client.image_to_text (app.py lines 73-85) and
\* the exceptions of lines 93-102
ClientOutcomes == {"str", "dict", "list_dict", "StopIteration", "Exception"}

\* bodies of a 200 reply as response.json() parses them (app.py lines 148-184)
JsonShapes ==
    {"invalid", "dict_generated_text", "dict_inputs", "str", "list_dict"}

\* non-200 statuses (app.py lines 185-234)
ErrorStatuses == {503, 410, 403, 404, 500}

\* response.text and the X-Error-Message header of a non-200 reply
ErrorBodies == { <<"r","a","t","e"," ","l","i","m","i","t"," ","e","x","c","e","e","d","e","d">> }
ErrorHeaders == { <<>>, <<"G","o","n","e">> }

\* str(e) of an exception raised by requests.post other than Timeout
ConnectionErrorText == <<"C","o","n","n","e","c","t","i","o","n"," ","r","e","f","u","s","e","d">>

HttpOutcomes ==
    {[kind |-> "timeout"], [kind |-> "exception"]}
    \cup {[kind |-> "json", shape |-> s] : s \in JsonShapes}
    \cup {[kind |-> "status", status |-> c, text |-> b, header |-> h] :
            c \in ErrorStatuses, b \in ErrorBodies, h \in {<<>>}}
    \cup {[kind |-> "status", status |-> 410, text |-> b, header |-> h] :
            b \in ErrorBodies, h \in ErrorHeaders}

\* how load_model's loading sequence can end (index.py lines 50-57)
LoadOutcomes == {"ok", "processor_fails", "model_fails", "eval_fails", "to_fails"}

\* how lines 87-119 of index.py can end
InferOutcomes == {"ok", "bad_image", "inference_error"}

ImportErrorText ==
    <<"R","e","q","u","i","r","e","d"," ","d","e","p","e","n","d","e","n","c","i","e","s"," ","(","t",
      "r","a","n","s","f","o","r","m","e","r","s",","," ","P","I","L",","," ","t","o","r","c","h",
      ")"," ","a","r","e"," ","n","o","t"," ","i","n","s","t","a","l","l","e","d">>
LoadErrorText == <<"C","a","n","'","t"," ","l","o","a","d"," ","n","a","v","e","r","-","c","l","o","v","a","-","i",
                   "x","/","d","o","n","u","t","-","b","a","s","e">>
BadImageText == <<"c","a","n","n","o","t"," ","i","d","e","n","t","i","f","y"," ","i","m","a","g","e"," ","f","i",
                  "l","e">>
InferenceErrorText == <<"o","u","t"," ","o","f"," ","m","e","m","o","r","y">>

\* every character of the generated text is whitespace or part of a sentinel
\* token: the model produced no text for the image
OnlySentinels(t) ==
    LET lt == lower(t)
    IN  \A i \in 1..Len(t) :
            \/ t[i] \in WhitespaceChars
            \/ \E s \in {S_CORD, END_S, PAD} :
                  \E p \in (IF i > Len(s) THEN i - Len(s) + 1 ELSE 1)..i : MatchAt(lt, s, p)

-----------------------------------------------------------------------------
(* State *)

VARIABLES
    process,                \* which program this process runs: "hf" (app.py) or "donut" (index.py)
    ACADEMIC_KEYWORDS,      \* the module-level list
    HF_API_TOKEN,           \* app.py line 33: "None" or "set"
    _inference_client,      \* app.py lines 36-47: "None" or "client"
    DEPENDENCIES_AVAILABLE, \* index.py lines 15-22
    _model,                 \* index.py line 35: "None", "loaded", "eval" or "cpu"
    _processor,             \* index.py line 36: "None" or "loaded"
    pc,                     \* position of the request in flight
    image_text,             \* the text the vision model generates for the uploaded image
    generated,              \* the vision model has generated image_text for the image in flight
    decoded,                \* the text as handed to the clean-up of the sentinels
    extracted_text,         \* the local variable extracted_text
    loop_ran,               \* the keyword-matching loop was executed for this request
    upstream,               \* how the text extraction ended
    verdict,                \* the dict returned to the caller
    prev,                   \* the last scored verdict for the same image
    call_pc,                \* position of each concurrent call of load_model
    result,                 \* how each call's last load_model ended and what it returned
    calls_made,             \* number of load_model calls started by the concurrent callers
    processor_loads,        \* number of DonutProcessor.from_pretrained loads performed
    model_loads,            \* number of VisionEncoderDecoderModel.from_pretrained loads performed
    load_raised,            \* a loading step has raised
    http_request,           \* the HTTP request while the handler's checks examine it
    status                  \* the status code of the handler's response, 0 before it

globals == <<process, ACADEMIC_KEYWORDS, HF_API_TOKEN, _inference_client,
             DEPENDENCIES_AVAILABLE, _model, _processor>>

vars == <<process, ACADEMIC_KEYWORDS, HF_API_TOKEN, _inference_client,
          DEPENDENCIES_AVAILABLE, _model, _processor,
          pc, image_text, generated, decoded, extracted_text, loop_ran, upstream,
          verdict, prev,
          call_pc, result, calls_made, processor_loads, model_loads, load_raised,
          http_request, status>>

\* the state of the HTTP handler
handler == <<http_request, status>>

NoRequest == [method |-> "none"]

\* the state of one request in flight
request == <<pc, image_text, generated, decoded, extracted_text, loop_ran, upstream,
             verdict, prev>>

\* the state of the concurrent callers of load_model
calls == <<call_pc, result, calls_made, processor_loads, model_loads, load_raised>>

\* the concurrent callers of load_model
Callers == 1..NumCallers

NoResult == [how |-> "none"]

NoVerdict == [pending |-> TRUE]
NoPrev == [valid |-> FALSE]

\* the state when the module has been imported
Init ==
    /\ process \in {"hf", "donut"}
    /\ ACADEMIC_KEYWORDS = KEYWORD_LIST
    /\ HF_API_TOKEN \in (IF process = "hf" THEN {"None", "set"} ELSE {"None"})
    /\ _inference_client \in (IF process = "hf" THEN {"None", "client"} ELSE {"None"})
    /\ DEPENDENCIES_AVAILABLE \in (IF process = "donut" THEN BOOLEAN ELSE {FALSE})
    /\ _model = "None"
    /\ _processor = "None"
    /\ pc = "input"
    /\ image_text = <<>>
    /\ generated = FALSE
    /\ decoded = <<>>
    /\ extracted_text = <<>>
    /\ loop_ran = FALSE
    /\ upstream = "none"
    /\ verdict = NoVerdict
    /\ prev = NoPrev
    /\ call_pc = [c \in Callers |-> "idle"]
    /\ result = [c \in Callers |-> NoResult]
    /\ calls_made = 0
    /\ processor_loads = 0
    /\ model_loads = 0
    /\ load_raised = FALSE
    /\ http_request = NoRequest
    /\ status = 0

\* what the vision model can generate for the image in flight: the same text
\* again for an image it has already read
GeneratedTexts == IF generated THEN {image_text} ELSE Texts

\* the failure return of a request
Fail(reason, error, how) ==
    /\ verdict' = FailureVerdict(reason, error)
    /\ upstream' = how
    /\ pc' = "done"

-----------------------------------------------------------------------------
(* app.py: classify_with_hf_api *)

\* extracted_text after lines 73-91 for a result of the given shape
ClientText(shape, t) ==
    LET text == CASE shape = "str" -> lower(t)
                  [] shape = "dict" -> lower(t)
                  [] shape = "list_dict" -> lower(t)
                  [] OTHER -> <<>>
    IN  IF text # <<>> /\ Len(text) > CLIENT_MIN_LEN THEN text ELSE <<>>

\* lines 65-103: the InferenceClient attempt
HFInferenceClient ==
    /\ process = "hf"
    /\ pc \in {"input", "ready"}
    /\ \E outcome \in ClientOutcomes :
          IF _inference_client = "None" \/ outcome \in {"StopIteration", "Exception"}
          THEN /\ extracted_text' = <<>>
               /\ pc' = "hf_http"
               /\ upstream' = "none"
               /\ UNCHANGED <<image_text, generated>>
          ELSE \E t \in GeneratedTexts :
                  LET text == ClientText(outcome, t)
                  IN  /\ image_text' = t
                      /\ generated' = TRUE
                      /\ extracted_text' = text
                      /\ pc' = IF text # <<>> THEN "hf_clean" ELSE "hf_http"
                      /\ upstream' = IF text = <<>> THEN "none"
                                     ELSE IF OnlySentinels(t) THEN "no_text" ELSE "ok"
    /\ UNCHANGED <<globals, calls, handler, decoded, loop_ran, verdict, prev>>

\* extracted_text after lines 148-184 for a 200 reply of the given shape
JsonText(shape, t) ==
    CASE shape = "invalid" -> <<>>
      [] shape = "dict_generated_text" ->
            IF lower(t) # <<>> THEN lower(t)
            ELSE lower(str_dict(<<"g","e","n","e","r","a","t","e","d","_","t","e","x","t">>, t))
      [] shape = "dict_inputs" ->
            IF lower(t) # <<>> THEN lower(t)
            ELSE lower(str_dict(<<"i","n","p","u","t","s">>, t))
      [] shape = "str" -> lower(t)
      [] shape = "list_dict" -> lower(t)

\* the failure dicts of lines 185-234
StatusReason(r) ==
    CASE r.status = 503 ->
            <<"H","u","g","g","i","n","g","F","a","c","e"," ","m","o","d","e","l"," ","i","s"," ","l","o","a",
              "d","i","n","g","."," ","P","l","e","a","s","e"," ","w","a","i","t"," ","3","0","-",
              "6","0"," ","s","e","c","o","n","d","s"," ","a","n","d"," ","t","r","y"," ","a","g",
              "a","i","n",".">>
      [] r.status = 410 ->
            <<"A","P","I"," ","e","n","d","p","o","i","n","t"," ","d","e","p","r","e","c","a","t","e","d"," ",
              "(","4","1","0",")",":"," ">>
            \o (IF r.header # <<>> THEN r.header ELSE Take(r.text, ERROR_TEXT_LIMIT))
            \o <<"."," ","T","h","e"," ","e","n","d","p","o","i","n","t"," ","i","s"," ","n","o"," ","l","o","n",
                 "g","e","r"," ","s","u","p","p","o","r","t","e","d",".">>
      [] r.status = 403 ->
            <<"A","u","t","h","e","n","t","i","c","a","t","i","o","n"," ","e","r","r","o","r"," ","(","4","0",
              "3",")",":"," ","Y","o","u","r"," ","H","u","g","g","i","n","g","F","a","c","e"," ",
              "t","o","k","e","n"," ","m","a","y"," ","n","o","t"," ","h","a","v","e"," ","s","u",
              "f","f","i","c","i","e","n","t"," ","p","e","r","m","i","s","s","i","o","n","s",".",
              " ","P","l","e","a","s","e"," ","c","h","e","c","k"," ","y","o","u","r"," ","t","o",
              "k","e","n"," ","a","t"," ","h","t","t","p","s",":","/","/","h","u","g","g","i","n",
              "g","f","a","c","e",".","c","o","/","s","e","t","t","i","n","g","s","/","t","o","k",
              "e","n","s"," ","a","n","d"," ","e","n","s","u","r","e"," ","i","t"," ","h","a","s",
              " ","'","r","e","a","d","'"," ","a","c","c","e","s","s","."," ","E","r","r","o","r",
              ":"," ">>
            \o Take(r.text, ERROR_TEXT_LIMIT)
      [] r.status = 404 ->
            <<"M","o","d","e","l"," ","n","o","t"," ","f","o","u","n","d"," ","(","4","0","4",")",":"," ","T",
              "h","e"," ","m","o","d","e","l"," ","'">> \o HF_MODEL_NAME
            \o <<"'"," ","m","a","y"," ","n","o","t"," ","b","e"," ","a","v","a","i","l","a","b","l","e"," ","v",
                 "i","a"," ","I","n","f","e","r","e","n","c","e"," ","A","P","I","."," ","E","r",
                 "r","o","r",":"," ">>
            \o Take(r.text, ERROR_TEXT_LIMIT)
      [] OTHER ->
            <<"H","u","g","g","i","n","g","F","a","c","e"," ","A","P","I"," ","e","r","r","o","r",":"," ">> \o str_int(r.status) \o <<" ","-"," ">>
            \o Take(r.text, API_ERROR_TEXT_LIMIT)

StatusError(r) ==
    CASE r.status = 503 -> <<"M","o","d","e","l"," ","l","o","a","d","i","n","g">>
      [] r.status = 410 -> <<"D","e","p","r","e","c","a","t","e","d"," ","e","n","d","p","o","i","n","t">>
      [] r.status = 403 -> <<"A","u","t","h","e","n","t","i","c","a","t","i","o","n"," ","f","a","i","l","e","d">>
      [] r.status = 404 -> <<"M","o","d","e","l"," ","n","o","t"," ","f","o","u","n","d">>
      [] OTHER -> <<"A","P","I"," ","e","r","r","o","r",":"," ">> \o str_int(r.status)

\* lines 105-234 and the handlers of lines 285-301: the direct HTTP request
HFHttpFallback ==
    /\ process = "hf"
    /\ pc = "hf_http"
    /\ IF HF_API_TOKEN = "None"
       THEN /\ Fail(<<"H","u","g","g","i","n","g","F","a","c","e"," ","A","P","I"," ","t","o","k","e","n"," ","(","H",
                      "F","_","A","P","I","_","T","O","K","E","N",")"," ","i","s"," ","r","e","q",
                      "u","i","r","e","d"," ","f","o","r"," ","r","o","u","t","e","r",".","h","u",
                      "g","g","i","n","g","f","a","c","e",".","c","o","."," ","P","l","e","a","s",
                      "e"," ","a","d","d"," ","y","o","u","r"," ","t","o","k","e","n"," ","t","o",
                      " ","R","a","i","l","w","a","y"," ","e","n","v","i","r","o","n","m","e","n",
                      "t"," ","v","a","r","i","a","b","l","e","s",".">>,
                    <<"M","i","s","s","i","n","g"," ","A","P","I"," ","t","o","k","e","n">>, "no_token")
            /\ UNCHANGED <<extracted_text, image_text, generated>>
       ELSE \E r \in HttpOutcomes :
            CASE r.kind = "timeout" ->
                    /\ Fail(<<"R","e","q","u","e","s","t"," ","t","i","m","e","o","u","t",":"," ","H","u","g","g","i","n","g",
                              "F","a","c","e"," ","A","P","I"," ","d","i","d"," ","n","o","t"," ",
                              "r","e","s","p","o","n","d"," ","w","i","t","h","i","n"," ","6","0",
                              " ","s","e","c","o","n","d","s",".">>,
                            <<"T","i","m","e","o","u","t">>, "timeout")
                    /\ UNCHANGED <<extracted_text, image_text, generated>>
              [] r.kind = "exception" ->
                    /\ Fail(<<"C","l","a","s","s","i","f","i","c","a","t","i","o","n"," ","f","a","i","l","e","d",":"," ">> \o ConnectionErrorText,
                            ConnectionErrorText, "exception")
                    /\ UNCHANGED <<extracted_text, image_text, generated>>
              [] r.kind = "status" ->
                    /\ Fail(StatusReason(r), StatusError(r), "status")
                    /\ UNCHANGED <<extracted_text, image_text, generated>>
              [] r.kind = "json" /\ r.shape = "invalid" ->
                    /\ extracted_text' = JsonText(r.shape, <<>>)
                    /\ upstream' = "invalid_json"
                    /\ pc' = "hf_clean"
                    /\ UNCHANGED <<verdict, image_text, generated>>
              [] OTHER ->
                    \E t \in GeneratedTexts :
                        /\ image_text' = t
                        /\ generated' = TRUE
                        /\ extracted_text' = JsonText(r.shape, t)
                        /\ upstream' = IF OnlySentinels(t) THEN "no_text" ELSE "ok"
                        /\ pc' = "hf_clean"
                        /\ UNCHANGED verdict
    /\ UNCHANGED <<globals, calls, handler, decoded, loop_ran, prev>>

\* lines 236-283: clean-up, the no-text check, the keyword loop and the verdict
HFCleanAndScore ==
    /\ process = "hf"
    /\ pc = "hf_clean"
    /\ LET text == IF extracted_text # <<>> THEN CleanHF(extracted_text)
                   ELSE extracted_text
       IN  /\ decoded' = extracted_text
           /\ extracted_text' = text
           /\ IF NoTextHF(text)
              THEN /\ verdict' = FailureVerdict(NoTextReason(_inference_client, HF_API_TOKEN),
                                                <<"N","o"," ","t","e","x","t"," ","e","x","t","r","a","c","t","e","d">>)
                   /\ loop_ran' = FALSE
              ELSE /\ verdict' = ScoreHF(text, ACADEMIC_KEYWORDS)
                   /\ loop_ran' = TRUE
    /\ pc' = "done"
    /\ UNCHANGED <<globals, calls, handler, image_text, generated, upstream, prev>>

-----------------------------------------------------------------------------
(* index.py: load_model and classify_document *)

\* lines 46-62: _processor and _model after a loading attempt that ends as given
ProcessorAfterLoad(outcome) == IF outcome = "processor_fails" THEN "None" ELSE "loaded"

ModelAfterLoad(outcome) ==
    CASE outcome \in {"processor_fails", "model_fails"} -> "None"
      [] outcome = "eval_fails" -> "loaded"
      [] outcome = "to_fails" -> "eval"
      [] OTHER -> "cpu"

\* lines 83-85 with load_model, lines 39-64
DonutLoadModel ==
    /\ process = "donut"
    /\ pc \in {"input", "ready"}
    /\ IF ~DEPENDENCIES_AVAILABLE
       THEN /\ Fail(<<"C","l","a","s","s","i","f","i","c","a","t","i","o","n"," ","f","a","i","l","e","d",":"," ">> \o ImportErrorText, ImportErrorText,
                    "deps_missing")
            /\ UNCHANGED <<_model, _processor>>
       ELSE IF _model = "None" \/ _processor = "None"
       THEN \E outcome \in LoadOutcomes :
            /\ _processor' = ProcessorAfterLoad(outcome)
            /\ _model' = ModelAfterLoad(outcome)
            /\ IF outcome = "ok"
               THEN pc' = "donut_infer" /\ UNCHANGED <<verdict, upstream>>
               ELSE Fail(<<"C","l","a","s","s","i","f","i","c","a","t","i","o","n"," ","f","a","i","l","e","d",":"," ">> \o LoadErrorText, LoadErrorText,
                         "load_failed")
       ELSE /\ pc' = "donut_infer"
            /\ UNCHANGED <<_model, _processor, verdict, upstream>>
    /\ UNCHANGED <<process, ACADEMIC_KEYWORDS, HF_API_TOKEN, _inference_client,
                   DEPENDENCIES_AVAILABLE, image_text, generated, decoded,
                   extracted_text, loop_ran, prev, calls, handler>>

\* lines 87-123: the image is opened, the model generates and the sequence is cleaned
DonutInfer ==
    /\ process = "donut"
    /\ pc = "donut_infer"
    /\ \E outcome \in InferOutcomes :
         CASE outcome = "bad_image" ->
                /\ Fail(<<"C","l","a","s","s","i","f","i","c","a","t","i","o","n"," ","f","a","i","l","e","d",":"," ">> \o BadImageText, BadImageText,
                        "bad_image")
                /\ UNCHANGED <<decoded, extracted_text, image_text, generated>>
           [] outcome = "inference_error" ->
                /\ Fail(<<"C","l","a","s","s","i","f","i","c","a","t","i","o","n"," ","f","a","i","l","e","d",":"," ">> \o InferenceErrorText,
                        InferenceErrorText, "inference_failed")
                /\ UNCHANGED <<decoded, extracted_text, image_text, generated>>
           [] OTHER ->
                \E sequence \in GeneratedTexts :
                    /\ image_text' = sequence
                    /\ generated' = TRUE
                    /\ decoded' = sequence
                    /\ extracted_text' = CleanDonut(sequence)
                    /\ upstream' = IF OnlySentinels(sequence) THEN "no_text" ELSE "ok"
                    /\ pc' = "donut_score"
                    /\ UNCHANGED verdict
    /\ UNCHANGED <<globals, calls, handler, loop_ran, prev>>

\* DonutScore with a loop that takes each matched keyword out of the module's list
DonutScore_Consuming ==
    /\ process = "donut"
    /\ pc = "donut_score"
    /\ verdict' = ScoreDonut(extracted_text, ACADEMIC_KEYWORDS)
    /\ ACADEMIC_KEYWORDS' =
            SelectSeq(ACADEMIC_KEYWORDS, LAMBDA keyword : ~Contains(keyword, extracted_text))
    /\ loop_ran' = TRUE
    /\ pc' = "done"
    /\ UNCHANGED <<process, HF_API_TOKEN, _inference_client, DEPENDENCIES_AVAILABLE,
                   _model, _processor, image_text, generated, decoded, extracted_text,
                   upstream, prev, calls, handler>>

\* lines 125-149: the keyword loop and the verdict
DonutScore ==
    /\ process = "donut"
    /\ pc = "donut_score"
    /\ verdict' = ScoreDonut(extracted_text, ACADEMIC_KEYWORDS)
    /\ loop_ran' = TRUE
    /\ pc' = "done"
    /\ UNCHANGED <<globals, calls, handler, image_text, generated, decoded, extracted_text, upstream, prev>>

-----------------------------------------------------------------------------
(* The callers *)

\* the verdict is returned to the client; the next image arrives
Respond ==
    /\ pc = "done"
    /\ pc' = "input"
    /\ image_text' = <<>>
    /\ generated' = FALSE
    /\ decoded' = <<>>
    /\ extracted_text' = <<>>
    /\ loop_ran' = FALSE
    /\ upstream' = "none"
    /\ verdict' = NoVerdict
    /\ prev' = NoPrev
    /\ UNCHANGED <<globals, calls, handler>>

\* the client sends the same image again
Resend ==
    /\ pc = "done"
    /\ pc' = "ready"
    /\ prev' = IF loop_ran THEN [valid |-> TRUE, text |-> extracted_text, verdict |-> verdict]
               ELSE prev
    /\ decoded' = <<>>
    /\ extracted_text' = <<>>
    /\ loop_ran' = FALSE
    /\ upstream' = "none"
    /\ verdict' = NoVerdict
    /\ UNCHANGED <<globals, calls, handler, image_text, generated>>

Next ==
    \/ HFInferenceClient
    \/ HFHttpFallback
    \/ HFCleanAndScore
    \/ DonutLoadModel
    \/ DonutInfer
    \/ DonutScore
    \/ Respond

Spec == Init /\ [][Next]_vars

\* the same program with clients that send an image again
SpecResend == Init /\ [][Next \/ Resend]_vars

-----------------------------------------------------------------------------
(* index.py: load_model called from concurrent requests, statement by statement *)

\* _model after line 54, _model.eval(), on the object the global refers to
ModelAfterEval(m) ==
    CASE m = "loaded" -> "eval"
      [] m = "cpu_no_eval" -> "cpu"
      [] OTHER -> m

\* _model after line 57, _model.to("cpu"), on the object the global refers to
ModelAfterTo(m) ==
    CASE m = "loaded" -> "cpu_no_eval"
      [] m = "eval" -> "cpu"
      [] OTHER -> m

\* lines 60-62: the exception is printed and raised again
Raise(c) ==
    /\ call_pc' = [call_pc EXCEPT ![c] = "idle"]
    /\ result' = [result EXCEPT ![c] = [how |-> "raised"]]

\* line 85: a request calls load_model
CallLoadModel(c) ==
    /\ process = "donut"
    /\ call_pc[c] = "idle"
    /\ calls_made < MaxCalls
    /\ calls_made' = calls_made + 1
    /\ call_pc' = [call_pc EXCEPT ![c] = "deps_check"]
    /\ result' = [result EXCEPT ![c] = NoResult]
    /\ UNCHANGED <<globals, request, handler, processor_loads, model_loads, load_raised>>

\* lines 43-44
DepsCheck(c) ==
    /\ call_pc[c] = "deps_check"
    /\ IF ~DEPENDENCIES_AVAILABLE
       THEN Raise(c)
       ELSE /\ call_pc' = [call_pc EXCEPT ![c] = "none_check"]
            /\ UNCHANGED result
    /\ UNCHANGED <<globals, request, handler, calls_made, processor_loads, model_loads, load_raised>>

\* line 46
NoneCheck(c) ==
    /\ call_pc[c] = "none_check"
    /\ call_pc' = [call_pc EXCEPT ![c] =
                      IF _model = "None" \/ _processor = "None"
                      THEN "load_processor" ELSE "return"]
    /\ UNCHANGED <<globals, request, handler, result, calls_made, processor_loads, model_loads,
                   load_raised>>

\* line 50
LoadProcessor(c) ==
    /\ call_pc[c] = "load_processor"
    /\ \E ok \in BOOLEAN :
          IF ok
          THEN /\ _processor' = "loaded"
               /\ processor_loads' = processor_loads + 1
               /\ call_pc' = [call_pc EXCEPT ![c] = "load_model"]
               /\ UNCHANGED <<result, load_raised>>
          ELSE /\ Raise(c)
               /\ load_raised' = TRUE
               /\ UNCHANGED <<_processor, processor_loads>>
    /\ UNCHANGED <<process, ACADEMIC_KEYWORDS, HF_API_TOKEN, _inference_client,
                   DEPENDENCIES_AVAILABLE, _model, request, handler, calls_made, model_loads>>

\* line 51
LoadModelWeights(c) ==
    /\ call_pc[c] = "load_model"
    /\ \E ok \in BOOLEAN :
          IF ok
          THEN /\ _model' = "loaded"
               /\ model_loads' = model_loads + 1
               /\ call_pc' = [call_pc EXCEPT ![c] = "eval"]
               /\ UNCHANGED <<result, load_raised>>
          ELSE /\ Raise(c)
               /\ load_raised' = TRUE
               /\ UNCHANGED <<_model, model_loads>>
    /\ UNCHANGED <<process, ACADEMIC_KEYWORDS, HF_API_TOKEN, _inference_client,
                   DEPENDENCIES_AVAILABLE, _processor, request, handler, calls_made, processor_loads>>

\* line 54
Eval(c) ==
    /\ call_pc[c] = "eval"
    /\ \E ok \in BOOLEAN :
          IF ok
          THEN /\ _model' = ModelAfterEval(_model)
               /\ call_pc' = [call_pc EXCEPT ![c] = "to_cpu"]
               /\ UNCHANGED <<result, load_raised>>
          ELSE /\ Raise(c)
               /\ load_raised' = TRUE
               /\ UNCHANGED _model
    /\ UNCHANGED <<process, ACADEMIC_KEYWORDS, HF_API_TOKEN, _inference_client,
                   DEPENDENCIES_AVAILABLE, _processor, request, handler, calls_made,
                   processor_loads, model_loads>>

\* line 57
ToCpu(c) ==
    /\ call_pc[c] = "to_cpu"
    /\ \E ok \in BOOLEAN :
          IF ok
          THEN /\ _model' = ModelAfterTo(_model)
               /\ call_pc' = [call_pc EXCEPT ![c] = "return"]
               /\ UNCHANGED <<result, load_raised>>
          ELSE /\ Raise(c)
               /\ load_raised' = TRUE
               /\ UNCHANGED _model
    /\ UNCHANGED <<process, ACADEMIC_KEYWORDS, HF_API_TOKEN, _inference_client,
                   DEPENDENCIES_AVAILABLE, _processor, request, handler, calls_made,
                   processor_loads, model_loads>>

\* line 64
Return(c) ==
    /\ call_pc[c] = "return"
    /\ result' = [result EXCEPT ![c] =
                     [how |-> "returned", model |-> _model, processor |-> _processor]]
    /\ call_pc' = [call_pc EXCEPT ![c] = "idle"]
    /\ UNCHANGED <<globals, request, handler, calls_made, processor_loads, model_loads, load_raised>>

NextLoad ==
    \/ \E c \in Callers : CallLoadModel(c)
    \/ \E c \in Callers : DepsCheck(c)
    \/ \E c \in Callers : NoneCheck(c)
    \/ \E c \in Callers : LoadProcessor(c)
    \/ \E c \in Callers : LoadModelWeights(c)
    \/ \E c \in Callers : Eval(c)
    \/ \E c \in Callers : ToCpu(c)
    \/ \E c \in Callers : Return(c)

\* index.py has been imported
InitLoad == Init /\ process = "donut"

\* index.py serving concurrent requests
SpecLoad == InitLoad /\ [][NextLoad]_vars

-----------------------------------------------------------------------------
(* The HTTP handlers: classify of app.py and main of index.py *)

\* len(image_bytes) > 10 * 1024 * 1024
MAX_IMAGE_BYTES == 10 * 1024 * 1024

\* request.method: the route of app.py admits POST and OPTIONS only; a request
\* object handed to main of index.py may carry any method or none
Methods ==
    IF process = "hf" THEN {"OPTIONS", "POST"} ELSE {"OPTIONS", "POST", "GET", "missing"}

\* where the request carries the image: nowhere, a multipart file, a JSON body
\* with "image" (plain or as a data URL), with "file" or with neither, a raw body
Bodies ==
    {"none", "multipart_file", "json_image", "json_data_url", "json_file", "json_other", "raw"}

Base64Bodies == {"json_image", "json_data_url", "json_file"}

\* lengths of the uploaded image in bytes
ImageLens == {0, MAX_IMAGE_BYTES, MAX_IMAGE_BYTES + 1}

Requests ==
    [method : Methods, body : Bodies, decodable : BOOLEAN, image_len : ImageLens]

\* app.py lines 326-345: image_bytes, or the exception of base64.b64decode
ImageBytesHF(r) ==
    CASE r.body = "multipart_file" -> [kind |-> "bytes", len |-> r.image_len]
      [] r.body \in Base64Bodies ->
            IF r.decodable THEN [kind |-> "bytes", len |-> r.image_len]
            ELSE [kind |-> "raise"]
      [] r.body = "raw" -> [kind |-> "bytes", len |-> r.image_len]
      [] OTHER -> [kind |-> "None"]

\* index.py lines 162-201: parse_request
parse_request(r) ==
    CASE r.body = "multipart_file" -> [kind |-> "bytes", len |-> r.image_len]
      [] r.body \in Base64Bodies ->
            IF r.decodable THEN [kind |-> "bytes", len |-> r.image_len]
            ELSE [kind |-> "None"]
      [] r.body = "raw" -> [kind |-> "bytes", len |-> r.image_len]
      [] OTHER -> [kind |-> "None"]

\* a request arrives
Receive ==
    /\ pc = "await"
    /\ \E r \in Requests : http_request' = r
    /\ status' = 0
    /\ pc' = "handler"
    /\ UNCHANGED <<globals, calls, image_text, generated, decoded, extracted_text,
                   loop_ran, upstream, verdict, prev>>

\* the response that ends the request without a call of the classifier
Reject(code) ==
    /\ status' = code
    /\ pc' = "replied"
    /\ UNCHANGED http_request

\* the classifier is called: of the request only image_bytes is passed on
Invoke ==
    /\ pc' = "input"
    /\ http_request' = NoRequest
    /\ UNCHANGED status

\* app.py lines 316-364: classify up to the call of classify_with_hf_api
classify ==
    /\ process = "hf"
    /\ pc = "handler"
    /\ IF http_request.method = "OPTIONS" THEN Reject(200)
       ELSE LET image_bytes == ImageBytesHF(http_request)
            IN  IF image_bytes.kind = "raise" THEN Reject(500)
                ELSE IF image_bytes.kind = "None" THEN Reject(400)
                ELSE IF image_bytes.len > MAX_IMAGE_BYTES THEN Reject(400)
                ELSE Invoke
    /\ UNCHANGED <<globals, calls, image_text, generated, decoded,
                   extracted_text, loop_ran, upstream, verdict, prev>>

\* index.py lines 221-243: main up to the call of classify_document
main ==
    /\ process = "donut"
    /\ pc = "handler"
    /\ IF http_request.method = "OPTIONS" THEN Reject(200)
       ELSE IF http_request.method # "POST" THEN Reject(405)
       ELSE LET image_bytes == parse_request(http_request)
            IN  IF image_bytes.kind = "None" THEN Reject(400)
                ELSE IF image_bytes.len > MAX_IMAGE_BYTES THEN Reject(400)
                ELSE Invoke
    /\ UNCHANGED <<globals, calls, image_text, generated, decoded,
                   extracted_text, loop_ran, upstream, verdict, prev>>

\* app.py lines 366-372 and index.py line 246: the verdict is sent
Reply ==
    /\ pc = "done"
    /\ status' = 200
    /\ pc' = "replied"
    /\ UNCHANGED <<globals, calls, http_request, image_text, generated, decoded,
                   extracted_text, loop_ran, upstream, verdict, prev>>

\* the handler is ready for the next request
NextRequest ==
    /\ pc = "replied"
    /\ pc' = "await"
    /\ http_request' = NoRequest
    /\ status' = 0
    /\ image_text' = <<>>
    /\ generated' = FALSE
    /\ decoded' = <<>>
    /\ extracted_text' = <<>>
    /\ loop_ran' = FALSE
    /\ upstream' = "none"
    /\ verdict' = NoVerdict
    /\ prev' = NoPrev
    /\ UNCHANGED <<globals, calls>>

\* the server has started and waits for a request
InitHandler ==
    /\ process \in {"hf", "donut"}
    /\ ACADEMIC_KEYWORDS = KEYWORD_LIST
    /\ HF_API_TOKEN \in (IF process = "hf" THEN {"None", "set"} ELSE {"None"})
    /\ _inference_client \in (IF process = "hf" THEN {"None", "client"} ELSE {"None"})
    /\ DEPENDENCIES_AVAILABLE \in (IF process = "donut" THEN BOOLEAN ELSE {FALSE})
    /\ _model = "None"
    /\ _processor = "None"
    /\ pc = "await"
    /\ image_text = <<>>
    /\ generated = FALSE
    /\ decoded = <<>>
    /\ extracted_text = <<>>
    /\ loop_ran = FALSE
    /\ upstream = "none"
    /\ verdict = NoVerdict
    /\ prev = NoPrev
    /\ call_pc = [c \in Callers |-> "idle"]
    /\ result = [c \in Callers |-> NoResult]
    /\ calls_made = 0
    /\ processor_loads = 0
    /\ model_loads = 0
    /\ load_raised = FALSE
    /\ http_request = NoRequest
    /\ status = 0

NextHandler ==
    \/ Receive
    \/ classify
    \/ main
    \/ HFInferenceClient
    \/ HFHttpFallback
    \/ HFCleanAndScore
    \/ DonutLoadModel
    \/ DonutInfer
    \/ DonutScore
    \/ Reply
    \/ NextRequest

\* the two services behind their HTTP handlers
SpecHandler == InitHandler /\ [][NextHandler]_vars

-----------------------------------------------------------------------------
(* Properties *)

\* the sentinel clean-up ran on the text of the request that has just ended
TextCleaned == pc = "done" /\ upstream \in {"ok", "no_text"}

\* the keyword loop ran and its verdict was returned
Scored == pc = "done" /\ loop_ran

Sentinels == {S_CORD, END_S, PAD}

\* position of a keyword in the Keyword Set
KeywordIndex(k) == CHOOSE i \in 1..Len(KEYWORD_LIST) : KEYWORD_LIST[i] = k

\* the keywords of the Keyword Set that occur in text
KeywordsIn(text) == {KEYWORD_LIST[i] : i \in {j \in 1..Len(KEYWORD_LIST) : Contains(KEYWORD_LIST[j], text)}}

\* position of the first occurrence of k in text
FirstPos(k, text) ==
    CHOOSE p \in 1..Len(text) : MatchAt(text, k, p) /\ \A q \in 1..(p - 1) : ~MatchAt(text, k, q)

\* number of occurrences of sub in text
Occurrences(sub, text) == Cardinality({p \in 1..Len(text) : MatchAt(text, sub, p)})

\* matched is the sub-list of the Keyword Set, in its order, of the keywords in text
IsKeywordSubsequence(matched, text) ==
    /\ {matched[i] : i \in 1..Len(matched)} = KeywordsIn(text)
    /\ \A i, j \in 1..Len(matched) : i < j => KeywordIndex(matched[i]) < KeywordIndex(matched[j])

\* C1: every returned verdict, failure verdicts included, is academic exactly
\* when its score is at least 2; a scored text in which exactly one keyword
\* occurs is not academic and one in which exactly two occur is academic.
C1_AcademicIffScoreAtLeastTwo ==
    pc = "done" =>
        /\ verdict.is_academic = (verdict.score >= 2)
        /\ loop_ran =>
              LET n == Cardinality(KeywordsIn(extracted_text))
              IN  /\ n = 1 => ~verdict.is_academic
                  /\ n = 2 => verdict.is_academic

\* a scored text with exactly two keywords, classified academic
C1_Witness ==
    /\ Scored
    /\ verdict.score = 2
    /\ verdict.is_academic
    /\ Cardinality(KeywordsIn(extracted_text)) = 2

\* C2 as stated: for every sanitized text, score is the number of keywords of
\* ACADEMIC_KEYWORDS occurring in the text, and matched_keywords (where the
\* verdict has the field) is the sub-list of them in list order.
C2_EverySanitizedText ==
    TextCleaned =>
        /\ verdict.score = Cardinality(KeywordsIn(extracted_text))
        /\ "matched_keywords" \in DOMAIN verdict =>
              IsKeywordSubsequence(verdict.matched_keywords, extracted_text)

\* C2 amended: for every sanitized text that reaches the keyword loop (every
\* text in index.py; in app.py the texts of at least 5 characters),
\* matched_keywords is the sub-list of ACADEMIC_KEYWORDS (in list order, without
\* duplicates) of the keywords occurring in the text, and score is its length;
\* app.py answers a shorter sanitized text with score 0 and no matched_keywords.
C2_MatchedIsKeywordSubsequence ==
    TextCleaned =>
        /\ loop_ran = (process = "donut" \/ Len(extracted_text) >= 5)
        /\ loop_ran =>
              /\ IsKeywordSubsequence(verdict.matched_keywords, extracted_text)
              /\ verdict.score = Len(verdict.matched_keywords)
              /\ verdict.score
                   = Cardinality({verdict.matched_keywords[i] : i \in 1..verdict.score})
        /\ ~loop_ran => verdict.score = 0 /\ "matched_keywords" \notin DOMAIN verdict

\* a scored text whose first matched keyword appears after its second one
C2_Witness ==
    /\ Scored
    /\ Len(verdict.matched_keywords) >= 2
    /\ FirstPos(verdict.matched_keywords[1], extracted_text)
         > FirstPos(verdict.matched_keywords[2], extracted_text)

\* C3 as stated: the example sentence matches exactly university, marksheet,
\* grade and percentage, has score 4, is academic and its reason states 4 matches.
C3_SentenceScoresFour ==
    (Scored /\ extracted_text = SENTENCE) =>
        /\ {verdict.matched_keywords[i] : i \in 1..Len(verdict.matched_keywords)}
             = { <<"u","n","i","v","e","r","s","i","t","y">>, <<"m","a","r","k","s","h","e","e","t">>, <<"g","r","a","d","e">>, <<"p","e","r","c","e","n","t","a","g","e">> }
        /\ verdict.score = 4
        /\ verdict.is_academic
        /\ Contains(<<"(","m","a","t","c","h","e","d"," ","4"," ","k","e","y","w","o","r","d","s",":"," ">>, verdict.reason)

\* C3 amended: the example sentence matches grade, marks, university, percentage
\* and marksheet ("marks" occurs inside "marksheet"), has score 5, is academic
\* and its reason states 5 matches.
C3_SentenceScoresFive ==
    (Scored /\ extracted_text = SENTENCE) =>
        /\ verdict.matched_keywords
             = << <<"g","r","a","d","e">>, <<"m","a","r","k","s">>, <<"u","n","i","v","e","r","s","i","t","y">>, <<"p","e","r","c","e","n","t","a","g","e">>, <<"m","a","r","k","s","h","e","e","t">> >>
        /\ verdict.score = 5
        /\ verdict.is_academic
        /\ verdict.reason =
             <<"D","o","c","u","m","e","n","t"," ","c","l","a","s","s","i","f","i","e","d"," ","a","s"," ","a",
               "c","a","d","e","m","i","c"," ","(","m","a","t","c","h","e","d"," ","5"," ","k","e",
               "y","w","o","r","d","s",":"," ","g","r","a","d","e",","," ","m","a","r","k","s",",",
               " ","u","n","i","v","e","r","s","i","t","y",","," ","p","e","r","c","e","n","t","a",
               "g","e",","," ","m","a","r","k","s","h","e","e","t",")">>

\* the example sentence has been scored
C3_Witness == Scored /\ extracted_text = SENTENCE /\ verdict.text = SENTENCE

\* C4: the text that is scored and returned is lower-case and contains no
\* occurrence of a sentinel literal, whatever the raw text was.
C4_NoSentinelLeft ==
    Scored =>
        /\ \A i \in 1..Len(extracted_text) :
              \A u \in 1..Len(UpperChars) : extracted_text[i] # UpperChars[u]
        /\ \A s \in Sentinels : ~Contains(s, extracted_text) /\ ~Contains(s, verdict.text)

\* the three sentinel literals in every order
SentinelOrders ==
    {<<a, b, c>> : a \in Sentinels, b \in Sentinels, c \in Sentinels} \
        {o \in {<<a, b, c>> : a \in Sentinels, b \in Sentinels, c \in Sentinels} :
            o[1] = o[2] \/ o[1] = o[3] \/ o[2] = o[3]}

\* the chained removals in the given order
RemoveInOrder(text, order) == replace(replace(replace(text, order[1]), order[2]), order[3])

\* every "<" of the text begins a complete sentinel literal
EverySentinelWhole(text) ==
    \A i \in 1..Len(text) : text[i] = "<" => \E s \in Sentinels : MatchAt(text, s, i)

\* C5 as stated: the chained removals give the same string in every order.
C5_AnyOrderSameOutput ==
    TextCleaned =>
        \A o1 \in SentinelOrders : \A o2 \in SentinelOrders :
            RemoveInOrder(decoded, o1) = RemoveInOrder(decoded, o2)

\* C5 amended: when every "<" of the input begins a complete sentinel literal
\* (no sentinel is nested in or split by another), the chained removals give the
\* same string in every order, and it is the one the code computes.
C5_WholeSentinelsAnyOrder ==
    (TextCleaned /\ EverySentinelWhole(decoded)) =>
        \A o \in SentinelOrders :
            /\ RemoveInOrder(decoded, o) = RemoveInOrder(decoded, <<S_CORD, END_S, PAD>>)
            /\ lower(strip(RemoveInOrder(decoded, o))) = extracted_text

\* a text with two different whole sentinels has been cleaned
C5_Witness ==
    /\ TextCleaned
    /\ process = "hf"
    /\ EverySentinelWhole(decoded)
    /\ Contains(S_CORD, decoded)
    /\ Contains(END_S, decoded)
    /\ extracted_text # <<>>

\* the reason of an academic verdict, from its head to the list of keywords
ReasonHead(score) ==
    <<"D","o","c","u","m","e","n","t"," ","c","l","a","s","s","i","f","i","e","d"," ","a","s"," ","a",
      "c","a","d","e","m","i","c"," ","(","m","a","t","c","h","e","d"," ">> \o str_int(score) \o <<" ","k","e","y","w","o","r","d","s",":"," ">>

\* C6: the reason of an academic verdict names min(score, 5) keywords, the first
\* of matched_keywords joined by ", ", while score and matched_keywords report
\* every match.
C6_ReasonNamesAtMostFive ==
    (pc = "done" /\ verdict.is_academic) =>
        LET n == IF verdict.score < 5 THEN verdict.score ELSE 5
            named == SubSeq(verdict.reason, Len(ReasonHead(verdict.score)) + 1,
                            Len(verdict.reason) - 1)
        IN  /\ SubSeq(verdict.reason, 1, Len(ReasonHead(verdict.score)))
                 = ReasonHead(verdict.score)
            /\ verdict.reason[Len(verdict.reason)] = ")"
            /\ named = join(<<","," ">>, SubSeq(verdict.matched_keywords, 1, n))
            /\ Occurrences(<<","," ">>, named) = n - 1
            /\ Len(verdict.matched_keywords) = verdict.score
            /\ verdict.score = Cardinality(KeywordsIn(extracted_text))

\* eight keywords matched: the reason lists five of them
C6_Witness ==
    /\ Scored
    /\ verdict.score = 8
    /\ Len(verdict.matched_keywords) = 8
    /\ Occurrences(<<","," ">>, verdict.reason) = 4

\* C7 as stated: the text field of every verdict is the first 500 characters of
\* the sanitized text, and a shorter sanitized text is returned unchanged.
C7_TextFieldOfEveryVerdict ==
    TextCleaned =>
        /\ Len(verdict.text) <= 500
        /\ verdict.text = [i \in 1..(IF Len(extracted_text) < 500 THEN Len(extracted_text) ELSE 500)
                             |-> extracted_text[i]]
        /\ Len(extracted_text) < 500 => verdict.text = extracted_text

\* C7 amended: the text field of every verdict has at most 500 characters; in
\* every verdict of the keyword loop it is the first 500 characters of the
\* sanitized text, a shorter text being returned unchanged; the failure verdict
\* app.py gives a sanitized text of fewer than 5 characters has text "".
C7_TextFieldOfScoredVerdict ==
    pc = "done" =>
        /\ Len(verdict.text) <= 500
        /\ loop_ran =>
              /\ verdict.text = [i \in 1..(IF Len(extracted_text) < 500
                                          THEN Len(extracted_text) ELSE 500)
                                   |-> extracted_text[i]]
              /\ Len(extracted_text) < 500 => verdict.text = extracted_text
        /\ ~loop_ran => verdict.text = <<>>
        /\ (TextCleaned /\ ~loop_ran) => (process = "hf" /\ Len(extracted_text) < 5)

\* a sanitized text of more than 500 characters has been cut to 500
C7_Witness ==
    /\ Scored
    /\ Len(extracted_text) > 500
    /\ Len(verdict.text) = 500

\* C8 as stated: an empty sanitized text gets score 0, is_academic false, an
\* empty matched_keywords list and the standard rejection reason.
C8_EmptyTextStandardRejection ==
    (TextCleaned /\ extracted_text = <<>>) =>
        /\ verdict.score = 0
        /\ ~verdict.is_academic
        /\ "matched_keywords" \in DOMAIN verdict
        /\ verdict.matched_keywords = <<>>
        /\ verdict.reason = REJECTION_REASON

\* C8 amended: in index.py an empty sanitized text gets score 0, is_academic
\* false, an empty matched_keywords list and the standard rejection reason; in
\* app.py it never reaches the keyword loop and gets the "No text extracted"
\* failure verdict: score 0, is_academic false, text "", a reason that begins
\* "Failed to extract text from image." and no matched_keywords.
C8_EmptyTextPerService ==
    (TextCleaned /\ extracted_text = <<>>) =>
        /\ verdict.score = 0
        /\ ~verdict.is_academic
        /\ verdict.text = <<>>
        /\ process = "donut" =>
              /\ loop_ran
              /\ verdict.matched_keywords = <<>>
              /\ verdict.reason = REJECTION_REASON
              /\ "error" \notin DOMAIN verdict
        /\ process = "hf" =>
              /\ ~loop_ran
              /\ "matched_keywords" \notin DOMAIN verdict
              /\ verdict.error = <<"N","o"," ","t","e","x","t"," ","e","x","t","r","a","c","t","e","d">>
              /\ MatchAt(verdict.reason, <<"F","a","i","l","e","d"," ","t","o"," ","e","x","t","r","a","c","t"," ","t","e","x","t"," ","f",
                                           "r","o","m"," ","i","m","a","g","e",".">>, 1)

\* index.py has scored an empty sanitized text
C8_Witness ==
    /\ Scored
    /\ process = "donut"
    /\ decoded # <<>>
    /\ extracted_text = <<>>
    /\ verdict.reason = REJECTION_REASON

\* C9: every upstream extraction failure (timeout, missing token, non-200
\* status, load or inference exception, no text extracted) ends with a verdict
\* that is not academic, has score 0, text "" and a reason describing the
\* failure, and the keyword loop is not run.
C9_FailureShortCircuits ==
    (pc = "done" /\ upstream # "ok") =>
        /\ ~verdict.is_academic
        /\ verdict.score = 0
        /\ verdict.text = <<>>
        /\ "error" \in DOMAIN verdict
        /\ verdict.reason # REJECTION_REASON
        /\ ~loop_ran

\* C10: the verdict is a function of the sanitized text and the Keyword Set:
\* classifying the same text again, after whatever requests came before, gives
\* the identical verdict, and ACADEMIC_KEYWORDS stays the same list of 32
\* distinct, lower-case, trimmed entries.
C10_SameTextSameVerdict ==
    /\ Len(ACADEMIC_KEYWORDS) = 32
    /\ \A i, j \in 1..Len(ACADEMIC_KEYWORDS) :
          i # j => ACADEMIC_KEYWORDS[i] # ACADEMIC_KEYWORDS[j]
    /\ \A i \in 1..Len(ACADEMIC_KEYWORDS) :
          /\ lower(ACADEMIC_KEYWORDS[i]) = ACADEMIC_KEYWORDS[i]
          /\ strip(ACADEMIC_KEYWORDS[i]) = ACADEMIC_KEYWORDS[i]
          /\ ACADEMIC_KEYWORDS[i] # <<>>
    /\ (Scored /\ prev.valid) =>
          (prev.text = extracted_text => verdict = prev.verdict)

\* the same text has been scored a second time, after a failed attempt or not
C10_Witness ==
    /\ Scored
    /\ prev.valid
    /\ prev.text = extracted_text
    /\ verdict.is_academic

\* C11: no sentinel literal contains an entry of ACADEMIC_KEYWORDS, and a
\* generated text made only of sentinels and whitespace has match count 0,
\* counted on the raw text as well as on what the service scored.
C11_SentinelsHoldNoKeyword ==
    /\ \A s \in Sentinels : \A i \in 1..Len(ACADEMIC_KEYWORDS) :
          ~Contains(ACADEMIC_KEYWORDS[i], s)
    /\ (pc = "done" /\ upstream = "no_text") =>
          /\ OnlySentinels(image_text)
          /\ verdict.score = 0
          /\ MatchKeywordsHF(lower(image_text), ACADEMIC_KEYWORDS) = <<>>
          /\ MatchKeywordsHF(extracted_text, ACADEMIC_KEYWORDS) = <<>>

\* a text of a sentinel and whitespace was scored with the sentinel still in it
C11_Witness ==
    /\ Scored
    /\ OnlySentinels(image_text)
    /\ Contains(END_S, extracted_text)
    /\ \E i \in 1..Len(image_text) : image_text[i] = " "
    /\ verdict.score = 0

\* C12: as long as no loading step has failed, the processor and the model are
\* each loaded with from_pretrained at most once in the process, under every
\* interleaving of the concurrent calls of load_model.
C12_LoadedAtMostOnce ==
    ~load_raised => (processor_loads <= 1 /\ model_loads <= 1)

\* the request carries image data that can be read as bytes
Parsable(r) ==
    \/ r.body \in {"multipart_file", "raw"}
    \/ r.body \in Base64Bodies /\ r.decodable

\* the classifier is called in this step
Invoked == pc = "handler" /\ pc' = "input"

\* what the handler's checks must do with the request they examine
GatedStep ==
    /\ pc = "handler" =>
          LET r == http_request
          IN  /\ r.method = "OPTIONS" => (status' = 200 /\ ~Invoked)
              /\ r.method \notin {"OPTIONS", "POST"} =>
                    (process = "donut" /\ status' = 405 /\ ~Invoked)
              /\ (r.method = "POST" /\ ~Parsable(r)) => (status' = 400 /\ ~Invoked)
              /\ (r.method = "POST" /\ Parsable(r) /\ r.image_len > 10 * 1024 * 1024) =>
                    (status' = 400 /\ ~Invoked)
              /\ (r.method = "POST" /\ Parsable(r) /\ r.image_len <= 10 * 1024 * 1024) =>
                    Invoked
    /\ pc' = "input" => Invoked
    /\ (pc = "done" /\ pc' = "replied") => (status' = 200 /\ verdict' = verdict)

\* C13: the handler answers OPTIONS with 200 without classifying, in index.py
\* any method other than OPTIONS and POST with 405, a request with no parsable
\* image with 400, an image of more than 10*1024*1024 bytes with 400 (exactly
\* that many bytes are accepted); the classifier is called only when all these
\* checks have passed, and its verdict, a failure verdict included, is sent
\* with status 200.
C13_GatesInFixedOrder == [][GatedStep]_vars

\* C14: the keyword loop runs on the whole sanitized text and only the text
\* field is cut: score and matched_keywords count every keyword of the whole
\* text, those beyond its first 500 characters included, so score is at least
\* the number of keywords found in the returned text field and can exceed it.
C14_MatchedOnWholeText ==
    Scored =>
        LET whole == KeywordsIn(extracted_text)
        IN  /\ verdict.score = Cardinality(whole)
            /\ {verdict.matched_keywords[i] : i \in 1..Len(verdict.matched_keywords)} = whole
            /\ verdict.text = Take(extracted_text, 500)
            /\ KeywordsIn(verdict.text) \subseteq whole

\* every keyword of a scored text lies beyond the 500 characters returned
C14_Witness ==
    /\ Scored
    /\ process = "hf"
    /\ Len(extracted_text) > 500
    /\ verdict.score >= 2
    /\ KeywordsIn(verdict.text) = {}
    /\ \E i \in 1..Len(verdict.matched_keywords) :
          FirstPos(verdict.matched_keywords[i], extracted_text) > 500

\* C15: every call of load_model that returns hands out a processor and a
\* model that are not None, the model having completed eval() and to("cpu"),
\* under every interleaving of the calls and after every failed attempt.
C15_NeverPartialModel ==
    \A c \in Callers :
        result[c].how = "returned" =>
            (result[c].processor = "loaded" /\ result[c].model = "cpu")
=============================================================================
